---- MODULE Spec2Model ----
(***************************************************************************)
(* UNOGame (src/uno_env.py): the game-state machine of the UNO engine.     *)
(*                                                                         *)
(* State: the fields of UNOGame.  A card is its unique_id (Card.__eq__     *)
(* compares unique_id only); its color, value and type are read from the   *)
(* catalog all_cards.  A hand is the set of the ids it holds (ids are      *)
(* unique, and the engine never reads the order of a hand).  deck and      *)
(* discard_pile are sequences, the last element being the one list.pop()   *)
(* and [-1] see.  random.shuffle is a choice among all orders.             *)
(*                                                                         *)
(* ret is what the last call gave back to its caller: the reward, done and *)
(* info["message"] of step, or the exception that left the call.  Rewards  *)
(* are in tenths (the draw reward is -0.1).  ret.replenished counts the    *)
(* times the call ran the body of _replenish_deck (found the deck empty).  *)
(*                                                                         *)
(* Scale: the 108-card catalog and the 7-card hands are scaled down.  Each *)
(* catalog of Catalogs is a sub-sequence of the templates that             *)
(* _create_all_card_templates builds, in its order, numbered from 0; the   *)
(* draw action is the index after the last card, as 108 is in the code.    *)
(***************************************************************************)
EXTENDS Integers, Sequences, FiniteSets, TLC

VARIABLES all_cards, num_players, players, deck, discard_pile,
          current_player, direction, current_color, ret

vars == <<all_cards, num_players, players, deck, discard_pile,
          current_player, direction, current_color, ret>>

game == <<players, deck, discard_pile, current_player, direction, current_color>>

----------------------------------------------------------------------------
(* Bounds of the model *)

MaxPlayers == 3

HandSize == 1

(* Program constants *)

DrawTwoCount == 2

WildDrawFourCount == 4

RewardPlay == 10

RewardWin == 1000

RewardInvalid == 0 - 10

RewardDraw == 0 - 1

----------------------------------------------------------------------------
(* Cards *)

NUMBER == "number"
SKIP == "skip"
REVERSE == "reverse"
DRAW_TWO == "draw_two"
WILD == "wild"
WILD_DRAW_FOUR == "wild_draw_four"

CardType == {NUMBER, SKIP, REVERSE, DRAW_TWO, WILD, WILD_DRAW_FOUR}

BLACK == "black"

\* CardColor without BLACK, in the order of the enum
ColorOrder == <<"red", "yellow", "blue", "green">>

CardColor == {ColorOrder[i] : i \in 1..Len(ColorOrder)} \cup {BLACK}

Card(color, value, type) == [color |-> color, value |-> value, type |-> type]

NumberCard(color, n) == Card(color, n, NUMBER)
SkipCard(color) == Card(color, "skip", SKIP)
ReverseCard(color) == Card(color, "reverse", REVERSE)
DrawTwoCard(color) == Card(color, "draw_two", DRAW_TWO)
WildCard == Card(BLACK, "wild", WILD)
WildDrawFourCard == Card(BLACK, "wild_draw_four", WILD_DRAW_FOUR)

\* Sub-sequences of the catalog of _create_all_card_templates: number cards
\* (with the two red 1), the function cards, the wild cards.
CatalogNumbers ==
    << NumberCard("red", "1"), NumberCard("red", "1"),
       NumberCard("yellow", "0"), NumberCard("yellow", "1") >>

CatalogFunctions ==
    << NumberCard("red", "0"), SkipCard("red"), ReverseCard("red"),
       DrawTwoCard("red"), SkipCard("yellow") >>

CatalogWilds ==
    << NumberCard("red", "0"), NumberCard("yellow", "1"), DrawTwoCard("yellow"),
       WildCard, WildDrawFourCard >>

Catalogs == {CatalogNumbers, CatalogFunctions, CatalogWilds}

Max(S) == CHOOSE x \in S : \A y \in S : y <= x

MaxCatalog == Max({Len(c) : c \in Catalogs})

\* unique_id of the cards of a catalog: 0 .. len-1
Ids(cards) == 0..(Len(cards) - 1)

\* all_cards[unique_id]
CardOf(id) == all_cards[id + 1]

IsWildType(cards, id) == cards[id + 1].type \in {WILD, WILD_DRAW_FOUR}

\* the draw action: 108 in the code, the index after the last catalog card
DRAW == Len(all_cards)

\* the actions a caller may pass to step; -1 and DRAW + 1 are outside the
\* action space
Actions == (0 - 1)..(DRAW + 1)

----------------------------------------------------------------------------
(* Sequences *)

Last(s) == s[Len(s)]

Front(s) == SubSeq(s, 1, Len(s) - 1)

Range(s) == {s[i] : i \in 1..Len(s)}

RECURSIVE Perms(_)
Perms(S) ==
    IF S = {} THEN {<<>>}
    ELSE UNION {{<<x>> \o p : p \in Perms(S \ {x})} : x \in S}

\* random.shuffle of a list: every order of its elements
Shuffle(s) == Perms(Range(s))

\* random.shuffle of the whole catalog, by catalog length
ShuffledCatalog == [k \in 0..MaxCatalog |-> Perms(0..(k - 1))]

----------------------------------------------------------------------------
(* What a call gives back *)

NoException == "none"

Returned(op, reward, done, message) ==
    [op |-> op, raised |-> NoException, reward |-> reward, done |-> done,
     message |-> message, replenished |-> 0]

Raised(op, exception) ==
    [op |-> op, raised |-> exception, reward |-> 0, done |-> FALSE,
     message |-> "", replenished |-> 0]

\* the hand of the player at seat p (0-based) in the list of hands ps
Hand(ps, p) == ps[p + 1]

----------------------------------------------------------------------------
(* __init__ *)

\* reset deals HandSize cards to each player and then needs a non-wild card
Dealable(cards, n) ==
    Cardinality({id \in Ids(cards) : ~IsWildType(cards, id)}) >= n * HandSize + 1

Init ==
    /\ all_cards \in Catalogs
    /\ num_players \in 2..MaxPlayers
    /\ Dealable(all_cards, num_players)
    /\ players = <<>>
    /\ deck = <<>>
    /\ discard_pile = <<>>
    /\ current_player = 0
    /\ direction = 1
    /\ current_color = "none"
    /\ ret = Returned("init", 0, FALSE, "")

----------------------------------------------------------------------------
(* reset *)

\* the hand reset deals to the player at seat p: HandSize pops of the deck d
DealtHand(d, p) == {d[Len(d) - p * HandSize - j] : j \in 0..(HandSize - 1)}

\* RevealTop without the test of the card type
RevealTopAnyCard(d) == [deck |-> Front(d), top |-> Last(d)]

\* the reveal loop of reset on the deck d left by the deal: pop the top card;
\* a wild card goes back at index 0 and the loop goes on
RECURSIVE RevealTop(_)
RevealTop(d) ==
    IF ~IsWildType(all_cards, Last(d))
    THEN [deck |-> Front(d), top |-> Last(d)]
    ELSE RevealTop(<<Last(d)>> \o Front(d))

Reset ==
    \E shuffled \in ShuffledCatalog[Len(all_cards)] :
        LET dealt == SubSeq(shuffled, 1, Len(shuffled) - num_players * HandSize)
            revealed == RevealTop(dealt)
        IN  /\ players' = [p \in 1..num_players |-> DealtHand(shuffled, p - 1)]
            /\ deck' = revealed.deck
            /\ discard_pile' = <<revealed.top>>
            /\ current_color' = CardOf(revealed.top).color
            /\ current_player' = 0
            /\ direction' = 1
            /\ ret' = Returned("reset", 0, FALSE, "")
            /\ UNCHANGED <<all_cards, num_players>>

----------------------------------------------------------------------------
(* step and its helpers *)

\* a game state as the helpers pass it on; raised names the exception that
\* left the helper, if one did; replenished counts the replenishes so far
GameState(ps, d, dp, cp, dir, col, raised) ==
    [players |-> ps, deck |-> d, discard_pile |-> dp, current_player |-> cp,
     direction |-> dir, current_color |-> col, raised |-> raised,
     replenished |-> 0]

\* the count of replenishes after a call of _replenish_deck on the deck d
Replenished(count, d) == IF Len(d) = 0 THEN count + 1 ELSE count

\* _replenish_deck keeping discard_pile[0] instead of discard_pile[-1]
ReplenishDeckKeepFirst(d, dp) ==
    IF Len(d) = 0
    THEN {[deck |-> s, discard_pile |-> <<dp[1]>>] : s \in Shuffle(Tail(dp))}
    ELSE {[deck |-> d, discard_pile |-> dp]}

\* _replenish_deck recycling the whole discard pile, its top card included
ReplenishDeckAll(d, dp) ==
    IF Len(d) = 0
    THEN {[deck |-> s, discard_pile |-> <<Last(dp)>>] : s \in Shuffle(dp)}
    ELSE {[deck |-> d, discard_pile |-> dp]}

\* _replenish_deck: the decks and discard piles it may leave
ReplenishDeck(d, dp) ==
    IF Len(d) = 0
    THEN {[deck |-> s, discard_pile |-> <<Last(dp)>>] : s \in Shuffle(Front(dp))}
    ELSE {[deck |-> d, discard_pile |-> dp]}

\* _is_valid_move without the match of two number cards by value
IsValidMoveNoValue(card, top, color) ==
    \/ card.color = color
    \/ (card.type = top.type /\ card.type # NUMBER)
    \/ card.color = BLACK

\* _is_valid_move
IsValidMove(card, top, color) ==
    \/ card.color = color
    \/ (card.type = top.type /\ card.type # NUMBER)
    \/ (card.type = NUMBER /\ card.value = top.value)
    \/ card.color = BLACK

\* _choose_wild_color giving the color of the wild card itself
ChooseWildColorOfCard(hand) == BLACK

\* _choose_wild_color on a hand: the first color, in the order of the enum,
\* that no color beats in number of cards (max over the dict of counts)
ColorCount(hand, color) ==
    Cardinality({id \in hand : CardOf(id).color = color})

ChooseWildColor(hand) ==
    LET best == CHOOSE i \in 1..Len(ColorOrder) :
                    /\ \A j \in 1..Len(ColorOrder) :
                           ColorCount(hand, ColorOrder[j]) <= ColorCount(hand, ColorOrder[i])
                    /\ \A j \in 1..(i - 1) :
                           ColorCount(hand, ColorOrder[j]) < ColorCount(hand, ColorOrder[i])
    IN  ColorOrder[best]

\* _apply_draw_effect: num_cards times, replenish an empty deck and move the
\* last card of the deck to the hand of the next player; list.pop() of an
\* empty deck raises IndexError and leaves what was done so far
RECURSIVE ApplyDrawEffect(_, _)
ApplyDrawEffect(num_cards, g) ==
    IF num_cards = 0 \/ g.raised # NoException THEN {g}
    ELSE
        LET next_player == (g.current_player + g.direction) % num_players
        IN  UNION {
              IF Len(r.deck) = 0
              THEN {[g EXCEPT !.deck = r.deck, !.discard_pile = r.discard_pile,
                              !.replenished = Replenished(@, g.deck),
                              !.raised = "IndexError"]}
              ELSE ApplyDrawEffect(num_cards - 1,
                     [g EXCEPT !.deck = Front(r.deck),
                               !.discard_pile = r.discard_pile,
                               !.replenished = Replenished(@, g.deck),
                               !.players[next_player + 1] = @ \cup {Last(r.deck)}])
              : r \in ReplenishDeck(g.deck, g.discard_pile) }

\* EffectType without the two-player case of Reverse
EffectTypeOfCard(card, n) == card.type

\* EffectType where a Skip has the effect of no card
EffectTypeSkipIsNumber(card, n) ==
    IF card.type = REVERSE /\ n = 2 THEN SKIP
    ELSE IF card.type = SKIP THEN NUMBER ELSE card.type

\* EffectType where a Reverse is a Skip whatever the number of players
EffectTypeReverseSkips(card, n) ==
    IF card.type = REVERSE THEN SKIP ELSE card.type

\* the type whose effect _play_card applies
EffectType(card, n) ==
    IF card.type = REVERSE /\ n = 2 THEN SKIP ELSE card.type

\* _play_card that sets current_color for wild cards only
PlayCardKeepColor(id, g) ==
    LET card == CardOf(id)
        hand == Hand(g.players, g.current_player) \ {id}
        played == [g EXCEPT !.players[g.current_player + 1] = hand,
                            !.discard_pile = Append(@, id),
                            !.current_color = IF card.color = BLACK
                                              THEN ChooseWildColor(hand)
                                              ELSE @]
        card_type == EffectType(card, Len(g.players))
    IN  CASE card_type = SKIP ->
               {[played EXCEPT !.current_player =
                                  (@ + played.direction) % num_players]}
          [] card_type = REVERSE ->
               {[played EXCEPT !.direction = 0 - @]}
          [] card_type = DRAW_TWO -> ApplyDrawEffect(DrawTwoCount, played)
          [] card_type = WILD_DRAW_FOUR -> ApplyDrawEffect(WildDrawFourCount, played)
          [] OTHER -> {played}

\* _play_card of the card id by the current player of g
PlayCard(id, g) ==
    LET card == CardOf(id)
        hand == Hand(g.players, g.current_player) \ {id}
        played == [g EXCEPT !.players[g.current_player + 1] = hand,
                            !.discard_pile = Append(@, id),
                            !.current_color = IF card.color = BLACK
                                              THEN ChooseWildColor(hand)
                                              ELSE card.color]
        card_type == EffectType(card, Len(g.players))
    IN  CASE card_type = SKIP ->
               {[played EXCEPT !.current_player =
                                  (@ + played.direction) % num_players]}
          [] card_type = REVERSE ->
               {[played EXCEPT !.direction = 0 - @]}
          [] card_type = DRAW_TWO -> ApplyDrawEffect(DrawTwoCount, played)
          [] card_type = WILD_DRAW_FOUR -> ApplyDrawEffect(WildDrawFourCount, played)
          [] OTHER -> {played}

\* the current game state
Game ==
    GameState(players, deck, discard_pile, current_player, direction,
              current_color, NoException)

\* the end of step: the game g is stored; a step that returns advances the
\* turn, a step left by an exception does not
Finish(g, result) ==
    /\ players' = g.players
    /\ deck' = g.deck
    /\ discard_pile' = g.discard_pile
    /\ direction' = g.direction
    /\ current_color' = g.current_color
    /\ current_player' =
          IF result.raised = NoException
          THEN (g.current_player + g.direction) % num_players
          ELSE g.current_player
    /\ ret' = [result EXCEPT !.replenished = g.replenished]
    /\ UNCHANGED <<all_cards, num_players>>

\* _action_to_card raises ValueError; next(...) raises StopIteration
CardNotInHand(action) ==
    \/ action < 0
    \/ action >= Len(all_cards)
    \/ action \notin Hand(players, current_player)

StepPlay(action) ==
    LET hand == Hand(players, current_player)
    IN  IF CardNotInHand(action)
        THEN Finish(Game, Returned("step", RewardInvalid, FALSE,
                                   "Invalid action: Card not in hand"))
        ELSE IF IsValidMove(CardOf(action), CardOf(Last(discard_pile)), current_color)
        THEN \E g \in PlayCard(action, Game) :
               IF g.raised # NoException
               THEN Finish(g, Raised("step", g.raised))
               ELSE IF Hand(g.players, current_player) = {}
               THEN Finish(g, Returned("step", RewardWin, TRUE, "Player wins!"))
               ELSE Finish(g, Returned("step", RewardPlay, FALSE, ""))
        ELSE Finish(Game, Returned("step", RewardInvalid, FALSE, "Invalid move"))

StepDraw ==
    \E r \in ReplenishDeck(deck, discard_pile) :
        LET g == [Game EXCEPT !.deck = r.deck, !.discard_pile = r.discard_pile,
                              !.replenished = Replenished(@, deck)]
        IN  IF Len(g.deck) = 0
            THEN Finish(g, Raised("step", "IndexError"))
            ELSE Finish([g EXCEPT !.deck = Front(@),
                                  !.players[current_player + 1] = @ \cup {Last(g.deck)}],
                        Returned("step", RewardDraw, FALSE, "Drew a card"))

Step(action) ==
    IF Len(players) = 0
    THEN /\ ret' = Raised("step", "ValueError")
         /\ UNCHANGED <<all_cards, num_players, game>>
    ELSE IF action < DRAW THEN StepPlay(action) ELSE StepDraw

Next ==
    \/ Reset
    \/ \E action \in Actions : Step(action)

Spec == Init /\ [][Next]_vars

----------------------------------------------------------------------------
(* reset, one statement at a time: the deal, then the iterations of the     *)
(* loop that reveals the first card.  ret.op is the position in reset:      *)
(* "dealt" after the deal, "put_back" after an iteration that put a wild    *)
(* card back, "reset" once reset has returned.                              *)

\* the deal and the first pop of the loop find a card
CanDeal(cards, n) == Len(cards) >= n * HandSize + 1

RevealInit ==
    /\ all_cards \in Catalogs
    /\ num_players \in 2..MaxPlayers
    /\ CanDeal(all_cards, num_players)
    /\ players = <<>>
    /\ deck = <<>>
    /\ discard_pile = <<>>
    /\ current_player = 0
    /\ direction = 1
    /\ current_color = "none"
    /\ ret = Returned("init", 0, FALSE, "")

InRevealLoop == ret.op \in {"dealt", "put_back"}

\* reset up to the loop: new hands, a shuffled deck, the deal
Deal ==
    /\ ~InRevealLoop
    /\ \E shuffled \in ShuffledCatalog[Len(all_cards)] :
          /\ players' = [p \in 1..num_players |-> DealtHand(shuffled, p - 1)]
          /\ deck' = SubSeq(shuffled, 1, Len(shuffled) - num_players * HandSize)
    /\ discard_pile' = <<>>
    /\ current_player' = 0
    /\ direction' = 1
    /\ ret' = Returned("dealt", 0, FALSE, "")
    /\ UNCHANGED <<all_cards, num_players, current_color>>

\* deck.insert(0, top_card) that appends the card instead
PutBackOnTop(d, top_card) == Append(d, top_card)

\* deck.insert(0, top_card)
PutBack(d, top_card) == <<top_card>> \o d

\* an iteration that pops a card that is not wild: it is the first discard
RevealCard ==
    /\ InRevealLoop
    /\ ~IsWildType(all_cards, Last(deck))
    /\ deck' = Front(deck)
    /\ discard_pile' = Append(discard_pile, Last(deck))
    /\ current_color' = CardOf(Last(deck)).color
    /\ ret' = Returned("reset", 0, FALSE, "")
    /\ UNCHANGED <<all_cards, num_players, players, current_player, direction>>

\* an iteration that pops a wild card: it goes back into the deck
PutBackWild ==
    /\ InRevealLoop
    /\ IsWildType(all_cards, Last(deck))
    /\ deck' = PutBack(Front(deck), Last(deck))
    /\ ret' = Returned("put_back", 0, FALSE, "")
    /\ UNCHANGED <<all_cards, num_players, players, discard_pile,
                   current_player, direction, current_color>>

RevealStep == RevealCard \/ PutBackWild

RevealNext == Deal \/ RevealStep

\* reset runs on: an iteration that can be taken is taken
SpecReveal == RevealInit /\ [][RevealNext]_vars /\ WF_vars(RevealStep)

----------------------------------------------------------------------------
(* Vocabulary of the properties.  They are about one call of step: the     *)
(* unprimed variables are the game before the call, the primed ones the    *)
(* game and the result after it.                                           *)

Initialized == Len(players) > 0

\* the non-draw actions of the action space
PlayActions == 0..(DRAW - 1)

ActingHand == Hand(players, current_player)

TopCard == CardOf(Last(discard_pile))

\* the matching rule of the specification for the card id: its color is the
\* current color, or its rank is the rank of the discard top, or it is wild
Matches(id) ==
    \/ CardOf(id).color = current_color
    \/ CardOf(id).value = TopCard.value
    \/ CardOf(id).color = BLACK

SameFace(id1, id2) ==
    /\ CardOf(id1).color = CardOf(id2).color
    /\ CardOf(id1).value = CardOf(id2).value

\* the step moved the card id from the hand of the acting player onto the
\* discard pile
Plays(id) ==
    /\ id \in ActingHand
    /\ Hand(players', current_player) = ActingHand \ {id}
    /\ Last(discard_pile') = id

PlaysSomeCard == \E id \in ActingHand : Plays(id)

ReturnedNormally(r) == r.op = "step" /\ r.raised = NoException

\* the call was step(a), on an initialized game
StepCalled(a) == Initialized /\ ret'.op = "step" /\ Step(a)

\* the player after seat p in turn order
NextSeat(p) == (p + direction) % num_players

----------------------------------------------------------------------------
\* C1: a non-draw action that is illegal (its card is not in the hand of the
\* acting player, or is there and matches neither current_color nor the rank
\* of the discard top and is not wild) changes nothing of the game, the
\* current player included, and step returns a negative reward and done=false.
C1_IllegalActionChangesNothing ==
    [][\A a \in PlayActions :
          (/\ StepCalled(a)
           /\ (a \notin ActingHand \/ ~Matches(a)))
          => /\ UNCHANGED game
             /\ ReturnedNormally(ret')
             /\ ret'.reward < 0
             /\ ret'.done = FALSE]_vars

\* C2: step plays a card on a non-draw action i if and only if the hand of the
\* acting player holds a card with the face of catalog entry i that matches
\* (current color, rank of the discard top, or wild).
C2_AcceptedIffFaceInHandMatches ==
    [][\A a \in PlayActions :
          StepCalled(a)
          => (PlaysSomeCard <=>
                \E id \in ActingHand : SameFace(id, a) /\ Matches(id))]_vars

\* C2, amended: step plays a card on a non-draw action i if and only if the
\* hand of the acting player holds the card whose identifier is i and that
\* card matches; the card played is card i.
C2_AcceptedIffCardInHandMatches ==
    [][\A a \in PlayActions :
          StepCalled(a)
          => /\ PlaysSomeCard <=> (a \in ActingHand /\ Matches(a))
             /\ PlaysSomeCard => Plays(a)]_vars

\* a card was just played by rank alone: on a card of another color, with
\* another current color
C2_Witness ==
    /\ ReturnedNormally(ret)
    /\ ret.reward = RewardPlay
    /\ Len(discard_pile) >= 2
    /\ TopCard.color # BLACK
    /\ TopCard.value = CardOf(discard_pile[Len(discard_pile) - 1]).value
    /\ TopCard.color # CardOf(discard_pile[Len(discard_pile) - 1]).color

\* C3: a legal play that removes the last card of the acting player returns
\* done=true with the win reward, whatever the kind of the card.
C3_LastCardWins ==
    [][\A a \in PlayActions :
          (/\ StepCalled(a)
           /\ ActingHand = {a}
           /\ Matches(a))
          => /\ ReturnedNormally(ret')
             /\ ret'.done = TRUE
             /\ ret'.reward = RewardWin]_vars

\* C4: a play that empties the hand of the acting player is followed by no
\* turn advance and no effect: the current player stays the winner, the
\* direction stays, no other hand receives a card.
C4_NoAdvanceAfterWin ==
    [][\A a \in PlayActions :
          (/\ StepCalled(a)
           /\ ActingHand = {a}
           /\ Matches(a)
           /\ ReturnedNormally(ret'))
          => /\ current_player' = current_player
             /\ direction' = direction
             /\ \A p \in 0..(num_players - 1) :
                   p # current_player => Hand(players', p) = Hand(players, p)]_vars

\* every place a card id occupies: the hands, the deck, the discard pile
Occurrences(id) ==
    Cardinality({p \in 1..Len(players) : id \in players[p]})
    + Cardinality({i \in 1..Len(deck) : deck[i] = id})
    + Cardinality({i \in 1..Len(discard_pile) : discard_pile[i] = id})

\* C5: after reset, from whatever state it was called in, every hand holds
\* HandSize cards (7 in the code), the discard pile holds one card and it is
\* not wild, every catalog card is in exactly one place, and the turn state is
\* the initial one: player 0, direction 1, current color of the top card.
C5_ResetDeals ==
    ret.op = "reset" =>
        /\ Len(players) = num_players
        /\ \A p \in 1..num_players : Cardinality(players[p]) = HandSize
        /\ Len(discard_pile) = 1
        /\ ~IsWildType(all_cards, discard_pile[1])
        /\ \A id \in Ids(all_cards) : Occurrences(id) = 1
        /\ current_player = 0
        /\ direction = 1
        /\ current_color = TopCard.color
        /\ ret.raised = NoException

\* reset has revealed a wild card first and put it back under the deck
C5_Witness ==
    /\ ret.op = "reset"
    /\ Len(deck) >= 1
    /\ IsWildType(all_cards, deck[1])
    /\ \A p \in 1..num_players : Cardinality(players[p]) = HandSize

\* C6: after a legal DrawTwo or WildDrawFour that does not empty the hand, the
\* next player receives the 2 or 4 cards and loses the turn: the player after
\* them acts next (with two players, the one who played).
C6_DrawCardSkipsNextPlayer ==
    [][\A a \in PlayActions :
          (/\ StepCalled(a)
           /\ Plays(a)
           /\ CardOf(a).type \in {DRAW_TWO, WILD_DRAW_FOUR}
           /\ ActingHand # {a}
           /\ ReturnedNormally(ret'))
          => /\ Cardinality(Hand(players', NextSeat(current_player)))
                  = Cardinality(Hand(players, NextSeat(current_player)))
                    + (IF CardOf(a).type = DRAW_TWO THEN DrawTwoCount
                                                    ELSE WildDrawFourCount)
             /\ current_player' = NextSeat(NextSeat(current_player))]_vars

\* C7: with two players, a legal Reverse leaves the same player to act next as
\* a legal Skip does: the one who played the card.
C7_ReverseIsSkipForTwo ==
    [][\A a \in PlayActions :
          (/\ StepCalled(a)
           /\ num_players = 2
           /\ Plays(a)
           /\ CardOf(a).type \in {REVERSE, SKIP})
          => /\ ReturnedNormally(ret')
             /\ current_player' = NextSeat(NextSeat(current_player))
             /\ current_player' = current_player]_vars

\* a Reverse was just played in a two-player game, without ending it
C7_Witness ==
    /\ num_players = 2
    /\ ReturnedNormally(ret)
    /\ ret.reward = RewardPlay
    /\ TopCard.type = REVERSE

\* the cards a draw can reach: the deck and the discard pile below its top
Drawable == Range(deck) \cup Range(Front(discard_pile))

\* C8: where a card can be drawn, the draw action adds exactly one card to the
\* hand of the acting player, appends nothing to the discard pile and leaves
\* current_color, direction, the discard top and the other hands as they were.
C8_DrawAddsOneCard ==
    [][(StepCalled(DRAW) /\ Drawable # {})
          => /\ ReturnedNormally(ret')
             /\ \E id \in Drawable \ ActingHand :
                   Hand(players', current_player) = ActingHand \cup {id}
             /\ \A p \in 0..(num_players - 1) :
                   p # current_player => Hand(players', p) = Hand(players, p)
             /\ Len(discard_pile') <= Len(discard_pile)
             /\ Range(discard_pile') \subseteq Range(discard_pile)
             /\ Last(discard_pile') = Last(discard_pile)
             /\ current_color' = current_color
             /\ direction' = direction]_vars

\* a card was just drawn, the discard pile holds its top card alone, and a
\* player has drawn more than once
C8_Witness ==
    /\ ReturnedNormally(ret)
    /\ ret.message = "Drew a card"
    /\ Len(discard_pile) = 1
    /\ \E p \in 1..num_players : Cardinality(players[p]) > HandSize + 1

\* C9: the draw action with an empty deck and only the top card on the discard
\* pile returns done=true (a stalemate) without raising, and moves no card.
C9_EmptyDrawIsStalemate ==
    [][(StepCalled(DRAW) /\ Len(deck) = 0 /\ Len(discard_pile) = 1)
          => /\ ReturnedNormally(ret')
             /\ ret'.done = TRUE
             /\ UNCHANGED <<players, deck, discard_pile>>]_vars

\* C10: a legal DrawTwo or WildDrawFour with fewer cards available than it
\* asks for (deck and discard pile together) gives the next player every
\* available card and step returns normally.
C10_ShortDrawReturns ==
    [][\A a \in PlayActions :
          (/\ StepCalled(a)
           /\ Plays(a)
           /\ CardOf(a).type \in {DRAW_TWO, WILD_DRAW_FOUR}
           /\ Len(deck) + Len(discard_pile)
                < (IF CardOf(a).type = DRAW_TWO THEN DrawTwoCount
                                                ELSE WildDrawFourCount))
          => /\ ReturnedNormally(ret')
             /\ Hand(players', NextSeat(current_player))
                  = Hand(players, NextSeat(current_player))
                    \cup Range(deck) \cup Range(discard_pile)]_vars

----------------------------------------------------------------------------
\* what a legal DrawTwo played on an empty deck does, as C11 states it: one
\* replenish, which moves the cards below the played card into the deck, and
\* two cards for the next player
OneReplenishThenTwoCards(a) ==
    /\ ReturnedNormally(ret')
    /\ ret'.replenished = 1
    /\ discard_pile' = <<a>>
    /\ Cardinality(Hand(players', NextSeat(current_player)))
         = Cardinality(Hand(players, NextSeat(current_player))) + DrawTwoCount
    /\ Hand(players', NextSeat(current_player)) \cup Range(deck')
         = Hand(players, NextSeat(current_player)) \cup Range(discard_pile)

C12_OutOfRangeActionRejected ==
    [][\A a \in Actions \ (0..DRAW) :
          StepCalled(a)
          => /\ ReturnedNormally(ret')
             /\ ret'.reward < 0
             /\ ret'.done = FALSE
             /\ UNCHANGED <<players, deck, discard_pile>>]_vars

\* the hands of the players other than the acting one are as they were
OtherHandsUnchanged ==
    \A p \in 0..(num_players - 1) :
        p # current_player => Hand(players', p) = Hand(players, p)

\* C13: a legal play of a number card that does not empty the hand moves the
\* card from the hand onto the discard pile, sets current_color to its color,
\* leaves direction, the other hands and the deck as they were, and passes the
\* turn to player (p + direction) mod N.
C13_NumberCardPlay ==
    [][\A a \in PlayActions :
          (/\ StepCalled(a)
           /\ a \in ActingHand
           /\ ActingHand # {a}
           /\ CardOf(a).type = NUMBER
           /\ Matches(a))
          => /\ ReturnedNormally(ret')
             /\ ret'.done = FALSE
             /\ Hand(players', current_player) = ActingHand \ {a}
             /\ discard_pile' = Append(discard_pile, a)
             /\ current_color' = CardOf(a).color
             /\ direction' = direction
             /\ deck' = deck
             /\ OtherHandsUnchanged
             /\ current_player' = (current_player + direction) % num_players]_vars

\* a number card was just played on a number card of its rank and of another
\* color (red 1 on yellow 1), the player keeping cards, and the current color
\* is the color of the card played
C13_Witness ==
    /\ ReturnedNormally(ret)
    /\ ret.reward = RewardPlay
    /\ ret.done = FALSE
    /\ Len(discard_pile) >= 2
    /\ TopCard.type = NUMBER
    /\ CardOf(discard_pile[Len(discard_pile) - 1]).type = NUMBER
    /\ CardOf(discard_pile[Len(discard_pile) - 1]).value = TopCard.value
    /\ CardOf(discard_pile[Len(discard_pile) - 1]).color # TopCard.color
    /\ current_color = TopCard.color

\* C14: replenish on an empty deck with a discard pile of k >= 2 cards leaves
\* the deck holding exactly the k-1 cards that were below the top, in some
\* order, and the discard pile holding the top card alone; it touches nothing
\* else.  Seen through the draw that triggers it: the card drawn is one of the
\* k-1, and current_color, direction and the other hands are as they were.
C14_ReplenishRecycles ==
    /\ []((Initialized /\ Len(deck) = 0 /\ Len(discard_pile) >= 2)
            => \A r \in ReplenishDeck(deck, discard_pile) :
                  /\ Len(r.deck) = Len(discard_pile) - 1
                  /\ Range(r.deck) = Range(Front(discard_pile))
                  /\ r.discard_pile = <<Last(discard_pile)>>
                  /\ DOMAIN r = {"deck", "discard_pile"})
    /\ [][(StepCalled(DRAW) /\ Len(deck) = 0 /\ Len(discard_pile) >= 2)
            => /\ ret'.replenished = 1
               /\ discard_pile' = <<Last(discard_pile)>>
               /\ Len(deck') = Len(discard_pile) - 2
               /\ Range(deck') \cup Hand(players', current_player)
                    = Range(Front(discard_pile)) \cup ActingHand
               /\ Range(deck') \cap Hand(players', current_player) = {}
               /\ OtherHandsUnchanged
               /\ current_color' = current_color
               /\ direction' = direction]_vars

\* a draw has just replenished the deck from a discard pile of three cards or
\* more: the top card is alone on the pile and the deck holds the rest
C14_Witness ==
    /\ ReturnedNormally(ret)
    /\ ret.message = "Drew a card"
    /\ ret.replenished = 1
    /\ Len(discard_pile) = 1
    /\ Len(deck) >= 1

\* the colors a play may have to match
PlayColors == {ColorOrder[i] : i \in 1..Len(ColorOrder)}

\* C15: in every state after reset, current_color is red, yellow, blue or
\* green, never black: after a wild card is played the discard top is the wild
\* card and current_color is the color chosen.
C15_CurrentColorNeverBlack ==
    Initialized => current_color \in PlayColors

\* a Wild was just played by a player who keeps yellow cards: the top card is
\* the black card, the current color is yellow
C15_Witness ==
    /\ ReturnedNormally(ret)
    /\ ret.reward = RewardPlay
    /\ TopCard.type = WILD
    /\ TopCard.color = BLACK
    /\ current_color = "yellow"

\* C18: in every state reached from reset by steps, each catalog card is in
\* exactly one place among the hands, the deck and the discard pile.
C18_CardConservation ==
    Initialized => \A id \in Ids(all_cards) : Occurrences(id) = 1

\* a DrawTwo was just played and its draw replenished the deck on the way
C18_Witness ==
    /\ ReturnedNormally(ret)
    /\ ret.reward = RewardPlay
    /\ ret.replenished = 1
    /\ TopCard.type = DRAW_TWO
    /\ \A id \in Ids(all_cards) : Occurrences(id) = 1

\* C19: in every state after reset the discard pile is not empty and, when its
\* top card is not wild, current_color is the color of the top card.
C19_ColorOfTopCard ==
    Initialized =>
        /\ Len(discard_pile) >= 1
        /\ ~IsWildType(all_cards, Last(discard_pile))
              => current_color = TopCard.color

\* a card of another color than the card below it was just played and is the
\* top card, and the current color has followed it
C19_Witness ==
    /\ ReturnedNormally(ret)
    /\ ret.reward \in {RewardPlay, RewardWin}
    /\ Len(discard_pile) >= 2
    /\ TopCard.color # BLACK
    /\ CardOf(discard_pile[Len(discard_pile) - 1]).color \notin {BLACK, TopCard.color}
    /\ current_color = TopCard.color

\* the step played a card whose effect is that of a Skip
PlaysSkip ==
    \E id \in ActingHand :
        Plays(id) /\ (\/ CardOf(id).type = SKIP
                      \/ CardOf(id).type = REVERSE /\ num_players = 2)

\* the step played a Reverse that flips the direction
PlaysReverse ==
    \E id \in ActingHand :
        Plays(id) /\ CardOf(id).type = REVERSE /\ num_players >= 3

\* C16: after player p legally plays a Skip under direction d without emptying
\* the hand, the next player to act is (p + 2d) mod N and direction is
\* unchanged; the bypass leaves nothing behind: every returning step that
\* plays neither a Skip nor a Reverse moves the turn by exactly one seat.
C16_SkipBypassesOne ==
    /\ [][\A a \in PlayActions :
             (/\ StepCalled(a) /\ Plays(a)
              /\ CardOf(a).type = SKIP /\ ActingHand # {a})
             => /\ ReturnedNormally(ret') /\ ret'.done = FALSE
                /\ current_player'
                     = (current_player + 2 * direction) % num_players
                /\ direction' = direction]_vars
    /\ [][(/\ Initialized /\ ReturnedNormally(ret')
           /\ ~PlaysSkip /\ ~PlaysReverse)
             => /\ current_player' = (current_player + direction) % num_players
                /\ direction' = direction]_vars

\* three players, the direction reversed: a Skip was just played by a player
\* who keeps cards
C16_Witness ==
    /\ num_players = 3
    /\ direction = 0 - 1
    /\ ReturnedNormally(ret)
    /\ ret.reward = RewardPlay
    /\ TopCard.type = SKIP

\* C17: with three players or more, after player p legally plays a Reverse
\* under direction d without emptying the hand, direction is -d and the next
\* player to act is (p - d) mod N; every step that does not play such a
\* Reverse keeps the direction, and when it returns the turn moves along that
\* direction: one seat, or two after a Skip.
C17_ReverseFlipsDirection ==
    /\ [][\A a \in PlayActions :
             (/\ StepCalled(a) /\ Plays(a) /\ num_players >= 3
              /\ CardOf(a).type = REVERSE /\ ActingHand # {a})
             => /\ ReturnedNormally(ret') /\ ret'.done = FALSE
                /\ direction' = 0 - direction
                /\ current_player' = (current_player - direction) % num_players]_vars
    /\ [][(Initialized /\ ret'.op = "step" /\ ~PlaysReverse)
             => /\ direction' = direction
                /\ ReturnedNormally(ret')
                     => current_player'
                          = (current_player
                               + (IF PlaysSkip THEN 2 ELSE 1) * direction)
                            % num_players]_vars

\* three players: a Reverse was played, and the player it passed the turn to
\* has drawn a card under the flipped direction
C17_Witness ==
    /\ num_players = 3
    /\ direction = 0 - 1
    /\ TopCard.type = REVERSE
    /\ ReturnedNormally(ret)
    /\ ret.message = "Drew a card"

\* the deck holds a card that is not wild
DeckHasNonWild == \E i \in 1..Len(deck) : ~IsWildType(all_cards, deck[i])

\* C20: the reveal loop of reset terminates: whenever the deck left by the
\* deal holds a card that is not wild, the loop ends with a non-wild card as
\* the one card of the discard pile; each wild card revealed on the way goes
\* back into the deck at its bottom, and from the deal on every card is in
\* exactly one place.
C20_RevealLoopTerminates ==
    /\ (ret.op = "dealt" /\ DeckHasNonWild)
          ~> (/\ ret.op = "reset"
              /\ Len(discard_pile) = 1
              /\ ~IsWildType(all_cards, Last(discard_pile)))
    /\ [][(InRevealLoop /\ IsWildType(all_cards, Last(deck)))
             => /\ ret'.op = "put_back"
                /\ Len(deck') = Len(deck)
                /\ deck'[1] = Last(deck)
                /\ SubSeq(deck', 2, Len(deck')) = Front(deck)
                /\ discard_pile' = <<>>
                /\ players' = players]_vars
    /\ [](ret.op # "init" => \A id \in Ids(all_cards) : Occurrences(id) = 1)

\* the loop has put a wild card back at the bottom of a deck of two cards or
\* more that holds a card that is not wild
C20_Witness ==
    /\ ret.op = "put_back"
    /\ Len(deck) >= 2
    /\ IsWildType(all_cards, deck[1])
    /\ DeckHasNonWild

====
